---- MODULE Spec2Model ----
(***************************************************************************)
(* The cache lifecycle of the nessie service worker (src/assets/js/sw.js). *)
(*                                                                         *)
(* The file holds two revisions of the worker script: the unversioned one  *)
(* (lines 1-14: install and fetch listeners, cache "nessie-pwa") and the   *)
(* versioned one (lines 73-101: install, activate and fetch listeners,     *)
(* cache "nessie-pwa-" + build identifier).  A deployed controller runs    *)
(* one of the two.  The listeners are asynchronous: every caches.* call    *)
(* and every network fetch is a step of its own, and the steps of          *)
(* different controllers interleave.  CacheStorage (name -> cache, in      *)
(* creation order), the network and the worker lifecycle are the host      *)
(* the listeners are written against.                                      *)
(***************************************************************************)
EXTENDS Integers, Sequences, FiniteSets, TLC

\* Bounds of the model.
MaxWorkers == 2
MaxDeploy == 2
MaxCalls == 3

Workers == 1..MaxWorkers
Bodies == 1..MaxDeploy

\* sw.js:2 / sw.js:74
filesToCache == <<"./", "./index.html", "./nessie.js", "./nessie_bg.wasm">>
Manifest == {filesToCache[i] : i \in 1..Len(filesToCache)}

\* The requests the page makes: an asset of the manifest and a url that is not
\* in it.
OtherPath == "./favicon.ico"
Paths == {"./index.html", OtherPath}

\* The ways the fetches of cache.addAll fail: none, one url, all of them.
FailSets == {{}} \cup {{p} : p \in Manifest} \cup {Manifest}

\* The values __BUILD_ID__ takes; NoBuildId is typeof __BUILD_ID__ === 'undefined'.
NoBuildId == "undefined"
BuildIds == {"a"}

Scripts == [rev : {"unversioned"}, build : {NoBuildId}]
             \cup [rev : {"versioned"}, build : BuildIds \cup {NoBuildId}]

\* sw.js:1 and sw.js:73
cacheName(script) ==
  IF script.rev = "unversioned"
    THEN "nessie-pwa"
    ELSE "nessie-pwa-" \o (IF script.build # NoBuildId THEN script.build ELSE "development")

\* String.prototype.startsWith, sw.js:88
startsWith(name, prefix) ==
  Len(name) >= Len(prefix) /\ SubSeq(name, 1, Len(prefix)) = prefix

\* What the origin may hold before the first modelled deployment: a store of
\* another application, and the store of an earlier versioned build.  Their
\* entries were captured before, so they differ from what the network serves.
ForeignName == "other-app"
PriorBuildId == "0"
PriorName == cacheName([rev |-> "versioned", build |-> PriorBuildId])
PriorBody == MaxDeploy + 1

\* Every name a store can have.
Names == {cacheName(script) : script \in Scripts} \cup {ForeignName, PriorName}

\* Responses: what the network produced for a url, or a network failure.
Resp(p, v) == [url |-> p, kind |-> "ok", body |-> v]
NetErr(p) == [url |-> p, kind |-> "error", body |-> 0]
Undef == [url |-> "", kind |-> "undefined", body |-> 0]

VARIABLES
  keys,    \* CacheStorage: the names of the existing stores, in creation order
  store,   \* CacheStorage: name -> (url -> captured response)
  netVer,  \* the content the network currently serves
  sw,      \* the controllers: script, lifecycle state, progress of their listeners
  req,     \* the intercepted request in flight (or the last one handled)
  ui       \* the Load Progress Reporter of the page and the elements it drives

vars == <<keys, store, netVer, sw, req, ui>>

Range(s) == {s[i] : i \in 1..Len(s)}

NoWorker ==
  [rev |-> "unversioned", build |-> NoBuildId, name |-> "", state |-> "parsed",
   cache |-> "none",
   provisioned |-> FALSE, failed |-> FALSE, snapshot |-> {}, pending |-> {},
   promise |-> "none", runs |-> 0, served |-> FALSE]

NoReq ==
  [phase |-> "idle", ctrl |-> 0, path |-> "", cached |-> {}, own |-> Undef,
   hitName |-> "", resp |-> Undef, netCalls |-> 0, netResp |-> Undef]

\* The fields of a controller record:
\*   rev, build   the revision of its script and the __BUILD_ID__ it was built with
\*   name         its cacheName
\*   state        parsed, installing, installed, activating, activated, redundant
\*   cache        the Cache object its install listener holds: none, open, or
\*                detached (the name was deleted from CacheStorage meanwhile)
\*   provisioned  cache.addAll resolved;  failed: cache.addAll rejected
\*   snapshot     what caches.keys() returned to its activate listener
\*   pending      the caches.delete calls issued and not yet completed
\*   promise      the Promise.all given to event.waitUntil: none, pending,
\*                fulfilled, rejected
\*   runs         how many times its activate listener ran
\*   served       it has handled a fetch event
\* The fields of the request record:
\*   cached       the entries for the url in any store when it was intercepted
\*   own          the entry in the store named by the controller's cacheName then
\*   hitName      the store caches.match answered from ("" on a miss)
\*   netCalls     the network fetches the fetch listener issued for it
\*   netResp      what the network produced; resp: what the requester got

\* The fields of the reporter record:
\*   built        the default export was called (sw.js:32)
\*   container, bar, text
\*                whether document.getElementById found the element (sw.js:33-35)
\*   display      progressContainer.style.display ("" until a hook sets it)
\*   width        progressBar.style.width
\*   innerText, color
\*                progressText.innerText and progressText.style.color
\*   console      the last line written to the console
\*   calls, last  the hooks called so far, and the arguments of the last call
NoCall == [current |-> 0, total |-> 0, error |-> ""]

Reporter(container, bar, text) ==
  [built |-> TRUE, container |-> container, bar |-> bar, text |-> text,
   display |-> "", width |-> "", innerText |-> "", color |-> "", console |-> "",
   calls |-> <<>>, last |-> NoCall]

\* No reporter: the scope of a service worker has no document.
NoReporter == [Reporter(FALSE, FALSE, FALSE) EXCEPT !.built = FALSE]

ForeignStore == [p \in {"./index.html"} |-> Resp(p, PriorBody)]
PriorStore == [p \in Manifest |-> Resp(p, PriorBody)]

Init ==
  /\ \/ keys = <<>> /\ store = <<>>
     \/ /\ keys = <<ForeignName, PriorName>>
        /\ store = [n \in {ForeignName, PriorName} |->
                      IF n = ForeignName THEN ForeignStore ELSE PriorStore]
  /\ netVer = 1
  /\ sw = [c \in Workers |-> NoWorker]
  /\ req = NoReq
  /\ ui = NoReporter

----------------------------------------------------------------------------
(* CacheStorage and Cache primitives *)

\* caches.open that creates a store on every call.
openKeysAlways(ks, name) == Append(ks, name)

\* caches.open(name): the store of that name, created empty at the end of the
\* registry when it does not exist.
openKeys(ks, name) == IF name \in Range(ks) THEN ks ELSE Append(ks, name)
openStore(ks, st, name) ==
  IF name \in Range(ks) THEN st
  ELSE [n \in Range(ks) \cup {name} |-> IF n = name THEN <<>> ELSE st[n]]

\* addAll that stores the responses that arrived although another fetch failed.
addAllPartial(entries, urls, failed, ver) ==
  [p \in DOMAIN entries \cup (urls \ failed) |->
     IF p \in urls \ failed THEN Resp(p, ver) ELSE entries[p]]

\* addAll that empties the cache when a fetch failed.
addAllWipe(entries, urls, failed, ver) ==
  IF failed # {} THEN <<>>
  ELSE [p \in DOMAIN entries \cup urls |-> IF p \in urls THEN Resp(p, ver) ELSE entries[p]]

\* cache.addAll(filesToCache): fetches every url; when one fetch fails the
\* promise rejects and nothing is written, otherwise every response is put,
\* replacing an entry of the same url.
addAll(entries, urls, failed, ver) ==
  IF failed # {} THEN entries
  ELSE [p \in DOMAIN entries \cup urls |-> IF p \in urls THEN Resp(p, ver) ELSE entries[p]]

\* caches.match(request): the first store in creation order that holds the url
\* answers; undefined when none does.
RECURSIVE match(_, _, _)
match(ks, st, p) ==
  IF ks = <<>> THEN Undef
  ELSE IF p \in DOMAIN st[Head(ks)] THEN st[Head(ks)][p]
  ELSE match(Tail(ks), st, p)

RECURSIVE matchName(_, _, _)
matchName(ks, st, p) ==
  IF ks = <<>> THEN ""
  ELSE IF p \in DOMAIN st[Head(ks)] THEN Head(ks)
  ELSE matchName(Tail(ks), st, p)

\* caches.delete(name)
RECURSIVE deleteKeys(_, _)
deleteKeys(ks, name) ==
  IF ks = <<>> THEN <<>>
  ELSE IF Head(ks) = name THEN Tail(ks)
  ELSE <<Head(ks)>> \o deleteKeys(Tail(ks), name)
deleteStore(ks, st, name) == [n \in Range(ks) \ {name} |-> st[n]]

----------------------------------------------------------------------------
(* The listeners *)

\* A redundant worker is discarded by the host: nothing of it remains but the
\* caches.delete calls it has issued.
discard(w) ==
  [NoWorker EXCEPT !.state = "redundant", !.rev = w.rev, !.build = w.build,
                   !.name = w.name, !.failed = w.failed, !.pending = w.pending]

\* An install event that ends well whatever its promise did.
installOutcomeIgnored(rejected) == "installed"

\* e.waitUntil(promise) of the install event: the worker becomes installed when
\* the promise resolves and redundant when it rejects.
installOutcome(rejected) == IF rejected THEN "redundant" ELSE "installed"

\* The install listener up to caches.open(cacheName) resolving (sw.js:4-6, 76-78).
\* The host installs one worker at a time, whatever script is deployed.
Install(c, script) ==
  /\ sw[c].state = "parsed"
  /\ \A d \in Workers : d < c => sw[d].state # "parsed"
  /\ \A d \in Workers : sw[d].state # "installing"
  /\ keys' = openKeys(keys, cacheName(script))
  /\ store' = openStore(keys, store, cacheName(script))
  /\ sw' = [sw EXCEPT ![c] = [NoWorker EXCEPT !.rev = script.rev,
                                              !.build = script.build,
                                              !.name = cacheName(script),
                                              !.state = "installing",
                                              !.cache = "open"]]
  /\ UNCHANGED <<netVer, req, ui>>

\* cache.addAll(filesToCache) settling and the install event ending (sw.js:6, 79).
\* failed: the urls whose fetch fails.  A worker that becomes installed replaces
\* the waiting one.
Provision(c, failed) ==
  /\ sw[c].state = "installing"
  /\ store' = IF sw[c].cache = "open"
                THEN [store EXCEPT ![sw[c].name] = addAll(@, Manifest, failed, netVer)]
                ELSE store
  /\ sw' = [d \in Workers |->
             IF d = c
               THEN [sw[c] EXCEPT !.state = installOutcome(failed # {}),
                                  !.cache = "none",
                                  !.provisioned = (failed = {}),
                                  !.failed = (failed # {})]
             ELSE IF sw[d].state = "installed" /\ installOutcome(failed # {}) = "installed"
               THEN discard(sw[d])
             ELSE sw[d]]
  /\ UNCHANGED <<keys, netVer, req, ui>>

\* A filter that takes one stale store per run.
staleOne(names, own) ==
  LET all == {n \in names : startsWith(n, "nessie-pwa-") /\ n # own} IN
  IF all = {} THEN {} ELSE {CHOOSE n \in all : TRUE}

\* A filter that takes every versioned store, the controller's own included.
staleAll(names, own) == {n \in names : startsWith(n, "nessie-pwa-")}

\* cacheNames.filter(...) of the activate listener (sw.js:88)
stale(names, own) == {n \in names : startsWith(n, "nessie-pwa-") /\ n # own}

\* The state of Promise.all(deletions) after one more deletion settled.
promiseAll(promise, left, ok) ==
  IF promise # "pending" THEN promise
  ELSE IF ~ok THEN "rejected"
  ELSE IF left = {} THEN "fulfilled"
  ELSE "pending"

\* The waiting worker becomes the active one and its activate event is
\* dispatched; the versioned revision's listener reads caches.keys() and issues
\* caches.delete for every stale name (sw.js:84-93).  The unversioned revision
\* has no activate listener.
Activate(c) ==
  /\ sw[c].state = "installed"
  /\ \A d \in Workers : sw[d].state # "activating"
  /\ sw' = [d \in Workers |->
             IF d = c
               THEN IF sw[c].rev = "versioned"
                      THEN [sw[c] EXCEPT !.state = "activating",
                                         !.snapshot = Range(keys),
                                         !.pending = stale(Range(keys), sw[c].name),
                                         !.promise = promiseAll("pending",
                                                       stale(Range(keys), sw[c].name), TRUE),
                                         !.runs = @ + 1]
                      ELSE [sw[c] EXCEPT !.state = "activating"]
             ELSE IF sw[d].state = "activated"
               THEN discard(sw[d])
             ELSE sw[d]]
  /\ UNCHANGED <<keys, store, netVer, req, ui>>

\* One caches.delete(name) of the activate listener completing (sw.js:89): the
\* name leaves the registry (nothing happens when it is already gone), or the
\* deletion fails.  A Cache object an install listener holds for that name stays
\* usable but is no longer the store of that name.
Delete(c, name, ok) ==
  /\ name \in sw[c].pending
  /\ keys' = IF ok THEN deleteKeys(keys, name) ELSE keys
  /\ store' = IF ok THEN deleteStore(keys, store, name) ELSE store
  /\ sw' = [d \in Workers |->
             IF d = c
               THEN [sw[c] EXCEPT !.pending = @ \ {name},
                                  !.promise = promiseAll(@, sw[c].pending \ {name}, ok)]
             ELSE IF ok /\ sw[d].cache = "open" /\ sw[d].name = name /\ name \in Range(keys)
               THEN [sw[d] EXCEPT !.cache = "detached"]
             ELSE sw[d]]
  /\ UNCHANGED <<netVer, req, ui>>

\* An activation that waits for the cleanup to succeed.
activateSettledFulfilled(w) == w.promise \in {"none", "fulfilled"}

\* The registry after the caches.delete calls for the given names succeeded.
RECURSIVE deleteAll(_, _)
deleteAll(ks, names) ==
  IF names = {} THEN ks
  ELSE LET n == CHOOSE m \in names : TRUE IN deleteAll(deleteKeys(ks, n), names \ {n})

\* One run of the activate listener on a registry, every deletion succeeding
\* (sw.js:86-90).
reconcile(ks, own) == deleteAll(ks, stale(Range(ks), own))

\* event.waitUntil of the activate event (sw.js:85): the worker is activated once
\* the promise has settled, whether it resolved or rejected.
activateSettled(w) == w.promise \in {"none", "fulfilled", "rejected"}

Activated(c) ==
  /\ sw[c].state = "activating"
  /\ activateSettled(sw[c])
  /\ sw' = [sw EXCEPT ![c].state = "activated"]
  /\ UNCHANGED <<keys, store, netVer, req, ui>>

\* A listener that goes to the network whatever the cache answered.
needsFetchAlways(response) == TRUE

\* A listener that turns a network failure into no response at all.
respondWithOffline(response, fetched) ==
  IF response # Undef THEN response
  ELSE IF fetched.kind = "error" THEN Undef
  ELSE fetched

\* A listener that answers a network failure with a page of its own.
respondWithFallback(response, fetched) ==
  IF response # Undef THEN response
  ELSE IF fetched.kind = "error" THEN Resp(fetched.url, 0)
  ELSE fetched

\* response || fetch(e.request)  (sw.js:12, 98)
needsFetch(response) == response = Undef
respondWith(response, fetched) == IF response # Undef THEN response ELSE fetched

\* The network fetches one call of fetch(e.request) issues.
fetchCalls == 1

\* The fetch listener up to caches.match(e.request) resolving (sw.js:10-12,
\* 95-98).  Fetch events go to the activated worker.
FetchMatch(c, p) ==
  /\ sw[c].state = "activated"
  /\ req.phase = "idle"
  /\ LET response == match(keys, store, p) IN
     req' = [phase |-> IF needsFetch(response) THEN "miss" ELSE "done",
             ctrl |-> c,
             path |-> p,
             cached |-> {store[n][p] : n \in {m \in Range(keys) : p \in DOMAIN store[m]}},
             own |-> IF sw[c].name \in Range(keys) /\ p \in DOMAIN store[sw[c].name]
                       THEN store[sw[c].name][p] ELSE Undef,
             hitName |-> matchName(keys, store, p),
             resp |-> IF needsFetch(response) THEN Undef ELSE respondWith(response, Undef),
             netCalls |-> 0,
             netResp |-> Undef]
  /\ sw' = [sw EXCEPT ![c].served = TRUE]
  /\ UNCHANGED <<keys, store, netVer, ui>>

\* A listener that keeps what the network answered in the store of its
\* controller.
FetchNetworkCaching(ok) ==
  /\ req.phase = "miss"
  /\ LET fetched == IF ok THEN Resp(req.path, netVer) ELSE NetErr(req.path)
         own == sw[req.ctrl].name IN
     /\ req' = [req EXCEPT !.phase = "done",
                           !.netCalls = @ + fetchCalls,
                           !.netResp = fetched,
                           !.resp = respondWith(Undef, fetched)]
     /\ store' = IF ok /\ own \in Range(keys)
                   THEN [store EXCEPT ![own] =
                           [q \in DOMAIN @ \cup {req.path} |->
                              IF q = req.path THEN fetched ELSE @[q]]]
                 ELSE store
  /\ UNCHANGED <<keys, netVer, sw, ui>>

\* fetch(e.request) settling (sw.js:12, 98): the response of the network, or its
\* failure, goes to the requester.
FetchNetwork(ok) ==
  /\ req.phase = "miss"
  /\ LET fetched == IF ok THEN Resp(req.path, netVer) ELSE NetErr(req.path) IN
     req' = [req EXCEPT !.phase = "done",
                        !.netCalls = @ + fetchCalls,
                        !.netResp = fetched,
                        !.resp = respondWith(Undef, fetched)]
  /\ UNCHANGED <<keys, store, netVer, sw, ui>>

\* e.respondWith(promise) settling (sw.js:11, 96): the requester has its answer
\* and the event is over.
Respond ==
  /\ req.phase = "done"
  /\ req' = NoReq
  /\ UNCHANGED <<keys, store, netVer, sw, ui>>

----------------------------------------------------------------------------
(* The host *)

\* A new build of the assets is published.
Deploy ==
  /\ netVer < MaxDeploy
  /\ netVer' = netVer + 1
  /\ UNCHANGED <<keys, store, sw, req, ui>>

Next ==
  \/ \E c \in Workers, script \in Scripts : Install(c, script)
  \/ \E c \in Workers, failed \in FailSets : Provision(c, failed)
  \/ \E c \in Workers : Activate(c)
  \/ \E c \in Workers, name \in Names, ok \in BOOLEAN : Delete(c, name, ok)
  \/ \E c \in Workers : Activated(c)
  \/ \E c \in Workers, p \in Paths : FetchMatch(c, p)
  \/ \E ok \in BOOLEAN : FetchNetwork(ok)
  \/ Respond
  \/ Deploy

Spec == Init /\ [][Next]_vars

\* The same system on an origin that holds no store before the first install.
InitFresh == Init /\ keys = <<>>
SpecFresh == InitFresh /\ [][Next]_vars

\* The same system where a fetch(e.request) that was issued settles: the network
\* answers or fails, it does not stay silent for ever.
SpecFair == Spec /\ WF_vars(\E ok \in BOOLEAN : FetchNetwork(ok))

----------------------------------------------------------------------------
(* The Load Progress Reporter (sw.js:32-71) *)

\* What the loader reports: bytes loaded of bytes expected, and an error.
Currents == {0, 1, 2, 50}
Totals == {-8, 0, 3, 8, 200}
Errors == {"timeout"}

\* A rounding that drops the fraction.
MathFloor(num, den) == num \div den

\* Math.round(num / den) for den > 0: the nearest integer, a half going up.
MathRound(num, den) == (2 * num + den) \div (2 * den)

\* `${percent}%`
percentText(percent) == ToString(percent) \o "%"

called(u, hook, args) == [u EXCEPT !.calls = Append(@, hook), !.last = args]

CanCall == ui.built /\ Len(ui.calls) < MaxCalls

\* onStart (sw.js:38-41)
onStart ==
  /\ CanCall
  /\ ui' = [called(ui, "onStart", NoCall) EXCEPT
              !.console = "Loading started",
              !.display = IF ui.container THEN "block" ELSE @]
  /\ UNCHANGED <<keys, store, netVer, sw, req>>

\* onProgress({ current, total }) (sw.js:42-50)
onProgress(current, total) ==
  /\ CanCall
  /\ LET u == called(ui, "onProgress", [NoCall EXCEPT !.current = current,
                                                       !.total = total])
         percent == MathRound(current * 100, total) IN
     ui' = IF total > 0 /\ ui.bar
             THEN [u EXCEPT !.width = percentText(percent),
                            !.innerText = IF ui.text
                                            THEN "Loading... " \o percentText(percent)
                                          ELSE @]
           ELSE u
  /\ UNCHANGED <<keys, store, netVer, sw, req>>

\* onComplete (sw.js:51-56)
onComplete ==
  /\ CanCall
  /\ ui' = [called(ui, "onComplete", NoCall) EXCEPT
              !.console = "Loading complete",
              !.innerText = IF ui.text THEN "Initializing..." ELSE @]
  /\ UNCHANGED <<keys, store, netVer, sw, req>>

\* A reporter that takes the failure notice away on success.
onSuccessClears ==
  /\ CanCall
  /\ ui' = [called(ui, "onSuccess", NoCall) EXCEPT
              !.console = "Loading success",
              !.innerText = IF ui.text THEN "" ELSE @,
              !.color = ""]
  /\ UNCHANGED <<keys, store, netVer, sw, req>>

\* onSuccess (sw.js:57-59)
onSuccess ==
  /\ CanCall
  /\ ui' = [called(ui, "onSuccess", NoCall) EXCEPT !.console = "Loading success"]
  /\ UNCHANGED <<keys, store, netVer, sw, req>>

\* onFailure(error) (sw.js:60-69)
onFailure(error) ==
  /\ CanCall
  /\ ui' = [called(ui, "onFailure", [NoCall EXCEPT !.error = error]) EXCEPT
              !.console = "Loading failed " \o error,
              !.display = IF ui.container THEN "none" ELSE @,
              !.innerText = IF ui.text THEN "Failed to load: " \o error ELSE @,
              !.color = IF ui.text THEN "red" ELSE @]
  /\ UNCHANGED <<keys, store, netVer, sw, req>>

\* The page: it builds the reporter over the elements its document has, and
\* the loader calls the hooks.  No service worker is registered yet.
InitUI ==
  /\ keys = <<>> /\ store = <<>>
  /\ netVer = 1
  /\ sw = [c \in Workers |-> NoWorker]
  /\ req = NoReq
  /\ ui \in {Reporter(container, bar, text) : container, bar, text \in BOOLEAN}

NextUI ==
  \/ onStart
  \/ \E current \in Currents, total \in Totals : onProgress(current, total)
  \/ onComplete
  \/ onSuccess
  \/ \E error \in Errors : onFailure(error)

SpecUI == InitUI /\ [][NextUI]_vars

----------------------------------------------------------------------------
(* Properties *)

\* The namespace of the system: the prefix every Cache Identity starts with.
InNamespace(n) == startsWith(n, "nessie-pwa")
\* The versioned identities.
IsVersioned(n) == startsWith(n, "nessie-pwa-")

\* The entries a lookup in the store of that name sees.
entriesOf(ks, st, n) == IF n \in Range(ks) THEN st[n] ELSE <<>>

\* The step in which the Promise.all of c's activate listener resolves: every
\* deletion it issued has succeeded.
ReconcileCompletes(c) ==
  sw[c].promise # "fulfilled" /\ sw'[c].promise = "fulfilled"

\* The step in which cache.addAll of c's install listener resolves, or rejects.
ProvisionSucceeds(c) == ~sw[c].provisioned /\ sw'[c].provisioned
ProvisionFails(c) == ~sw[c].failed /\ sw'[c].failed

\* c is the controller deployed last.
IsLatest(c) == \A d \in Workers : d > c => sw[d].state = "parsed"

\* C1: a request for which some store holds an entry when it is intercepted is
\* answered with such a cached entry, and no network fetch is issued for it,
\* whichever revision the controller runs and whatever the network serves.
C1_CacheFirst ==
  (req.phase # "idle" /\ req.cached # {}) =>
     /\ req.phase = "done"
     /\ req.netCalls = 0
     /\ req.resp \in req.cached

C1_Witness ==
  /\ req.phase = "done"
  /\ req.cached # {}
  /\ req.resp.body # netVer
  /\ sw[req.ctrl].rev = "versioned"

\* C2: a request no store holds an entry for is forwarded to the network exactly
\* once, and the requester gets what the network produced.
C2_MissFallthrough ==
  (req.phase # "idle" /\ req.cached = {}) =>
     /\ req.phase = "miss" => req.netCalls = 0 /\ req.resp = Undef
     /\ req.phase = "done" =>
          /\ req.netCalls = 1
          /\ req.resp = req.netResp
          /\ req.netResp \in {Resp(req.path, v) : v \in Bodies} \cup {NetErr(req.path)}

C2_Witness ==
  /\ req.phase = "done"
  /\ req.cached = {}
  /\ req.netResp.kind = "ok"

\* C3: when the reconcile of a controller with identity B2 completes, every
\* other versioned identity B1 its caches.keys() saw is gone from the registry
\* (unless a later install of B1 opened it again), B2's store is in the
\* registry, and every store outside the namespace is there with its contents.
C3_ReconcileSupersedes ==
  [][\A c \in Workers : ReconcileCompletes(c) =>
       /\ \A n \in sw'[c].snapshot :
            (n # sw'[c].name /\ IsVersioned(n)
               /\ ~\E d \in Workers : d > c /\ sw'[d].name = n)
              => n \notin Range(keys')
       /\ sw'[c].name \in Range(keys')
       /\ \A n \in sw'[c].snapshot :
            ~InNamespace(n) => n \in Range(keys') /\ store'[n] = ForeignStore]_vars

\* C4: when the provision of a controller succeeds, the store named by its
\* Cache Identity holds a response for every path of the Asset Manifest.
C4_ProvisionComplete ==
  [][\A c \in Workers : ProvisionSucceeds(c) =>
       /\ sw'[c].name \in Range(keys')
       /\ Manifest \subseteq DOMAIN store'[sw'[c].name]]_vars

\* C5: a provision in which a manifest fetch failed fails as a whole: the
\* controller is redundant from then on, never installed nor active, and the
\* failing attempt writes nothing into any store.
C5_AllOrNothing ==
  /\ [](\A c \in Workers : sw[c].failed =>
          sw[c].state = "redundant" /\ ~sw[c].provisioned /\ ~sw[c].served)
  /\ [][\A c \in Workers : ProvisionFails(c) => keys' = keys /\ store' = store]_vars

C5_Witness ==
  \E c \in Workers :
    /\ sw[c].failed
    /\ sw[c].name \in Range(keys)
    /\ store[sw[c].name] = <<>>

\* C6: an install attempt that fails leaves the active controller active and
\* changes no answer of the cache: neither its caches.open nor its failing
\* cache.addAll changes what caches.match returns for any request or what the
\* active controller's store holds.
C6_FailedInstallHarmless ==
  [][\A c \in Workers :
       (ProvisionFails(c) \/ (sw[c].state = "parsed" /\ sw'[c].state = "installing")) =>
         /\ \A p \in Manifest \cup Paths : match(keys', store', p) = match(keys, store, p)
         /\ \A d \in Workers : sw[d].state = "activated" =>
              /\ sw'[d].state = "activated"
              /\ entriesOf(keys', store', sw[d].name) = entriesOf(keys, store, sw[d].name)]_vars

C6_Witness ==
  \E c, d \in Workers :
    /\ d < c
    /\ sw[c].failed
    /\ sw[d].state = "activated"
    /\ req.phase = "done" /\ req.ctrl = d /\ req.own # Undef

\* The lifecycle order every controller keeps: installed, activating or
\* activated only after cache.addAll resolved; the activate listener of the
\* versioned revision runs once per activation; requests are handled by an
\* activated controller only.
LifecycleOrder(c) ==
  /\ sw[c].state \in {"installed", "activating", "activated"} =>
       sw[c].provisioned /\ ~sw[c].failed
  /\ sw[c].runs <= 1
  /\ (sw[c].rev = "versioned" /\ sw[c].state \in {"activating", "activated"}) =>
       sw[c].runs = 1
  /\ sw[c].state = "activated" => activateSettled(sw[c])
  /\ sw[c].served => sw[c].state = "activated" /\ sw[c].provisioned

C8_OwnStoreOnly ==
  (req.phase = "done" /\ req.hitName # "") =>
     /\ req.hitName = sw[req.ctrl].name
     /\ req.resp = req.own

\* C9: the entries of a store that has been provisioned never change as long
\* as the store exists.
C9_StoreImmutable ==
  [][\A n \in Range(keys) \cap Range(keys') :
       Manifest \subseteq DOMAIN store[n] => store'[n] = store[n]]_vars

\* C10: when the reconcile of the controller deployed last completes, the only
\* store of the namespace left in the registry is that controller's store.
C10_NoGrowth ==
  [][\A c \in Workers : (ReconcileCompletes(c) /\ IsLatest(c)) =>
       \A n \in Range(keys') : InNamespace(n) => n = sw'[c].name]_vars

\* The step in which the install listener of c opens its store.
InstallStarts(c) == sw[c].state = "parsed" /\ sw'[c].state = "installing"

Deployed(c) == sw[c].state # "parsed"

NoDuplicates(ks) == \A i, j \in 1..Len(ks) : ks[i] = ks[j] => i = j

\* C11: the Cache Identity of a controller is cacheName of its revision and
\* build identifier, so two installs of the same build have the same identity;
\* an install whose identity already names a store opens that store and
\* creates none (the registry never holds two stores of one name); and the
\* identity of a controller is the same in its install, activate and fetch
\* listeners.
C11_IdentityFunctionOfBuild ==
  /\ [](/\ NoDuplicates(keys)
        /\ DOMAIN store = Range(keys)
        /\ \A c \in Workers : Deployed(c) =>
             sw[c].name = cacheName([rev |-> sw[c].rev, build |-> sw[c].build])
        /\ \A c, d \in Workers :
             (Deployed(c) /\ Deployed(d) /\ sw[c].rev = sw[d].rev
                /\ sw[c].build = sw[d].build) => sw[c].name = sw[d].name)
  /\ [][\A c \in Workers : InstallStarts(c) =>
          /\ sw'[c].name \in Range(keys')
          /\ sw'[c].name \in Range(keys) => keys' = keys /\ store' = store]_vars
  /\ [][\A c \in Workers : Deployed(c) =>
          sw'[c].name = sw[c].name /\ sw'[c].build = sw[c].build]_vars

C11_Witness ==
  /\ sw[1].rev = "versioned" /\ sw[2].rev = "versioned"
  /\ sw[1].build = "a" /\ sw[2].build = "a"
  /\ sw[1].provisioned /\ sw[2].state = "installing"
  /\ keys = <<sw[2].name>>

\* The asset sets a store was provisioned from: the bodies it holds for the
\* urls of the manifest.
assetsOf(entries) == {entries[p].body : p \in DOMAIN entries \cap Manifest}

SuppliedBuild(w) == w.rev = "versioned" /\ w.build # NoBuildId

\* C12: two deployments of different asset sets have different Cache
\* Identities, in the unversioned revision, in the versioned revision with a
\* build identifier and in the versioned revision with the placeholder: the
\* identity of a controller that installs names no store that an earlier
\* deployment provisioned from another asset set than the one the site serves
\* now. A supplied build identifier is left to the build, which numbers the
\* asset sets.
C12_IdentityUniquePerAssets ==
  [][\A c \in Workers :
       (InstallStarts(c) /\ ~SuppliedBuild(sw'[c]) /\ sw'[c].name \in Range(keys))
         => assetsOf(store[sw'[c].name]) \subseteq {netVer}]_vars

CleanupFailed(c) == sw[c].promise = "rejected"

\* C13: a deletion that fails during the reconcile does not stop the
\* controller: the failure changes neither the registry nor a store nor the
\* state of a controller, the controller can still become active, and once
\* active it still takes every request and answers it from a cache or from
\* the network; the stale store stays in the registry.
C13_CleanupFailureNonFatal ==
  /\ [](\A c \in Workers :
         /\ (CleanupFailed(c) /\ sw[c].state = "activating") => ENABLED Activated(c)
         /\ (CleanupFailed(c) /\ sw[c].state = "activated" /\ req.phase = "idle")
              => \A p \in Paths : ENABLED FetchMatch(c, p)
         /\ (CleanupFailed(c) /\ req.ctrl = c /\ req.phase = "done")
              => req.resp # Undef /\ req.resp.url = req.path)
  /\ [][\A c \in Workers :
          (~CleanupFailed(c) /\ sw'[c].promise = "rejected") =>
            /\ keys' = keys /\ store' = store
            /\ \A d \in Workers : sw'[d].state = sw[d].state]_vars

C13_Witness ==
  \E c \in Workers :
    /\ CleanupFailed(c) /\ sw[c].state = "activated" /\ sw[c].served
    /\ stale(Range(keys), sw[c].name) # {}
    /\ req.ctrl = c /\ req.phase = "done" /\ req.resp.kind = "ok"

\* C14: a request an active controller took gets its outcome: a request that
\* missed the caches is answered once the network settles, a hit is answered
\* with the cached entry without the network, a miss with the response of the
\* network, and a miss whose fetch failed with that very failure.
C14_RequestAnswered ==
  /\ (req.phase = "miss") ~> (req.phase = "done")
  /\ [](req.phase = "done" =>
          /\ req.resp # Undef
          /\ req.hitName # "" => req.resp \in req.cached /\ req.netCalls = 0
          /\ req.hitName = "" =>
               /\ req.netResp.kind = "ok" => req.resp = req.netResp
               /\ req.netResp.kind # "ok" => req.resp = NetErr(req.path))

C14_Witness ==
  /\ req.phase = "done"
  /\ req.hitName = ""
  /\ req.resp = NetErr(req.path)
  /\ sw[req.ctrl].state = "activated"

\* A step of the fetch listener: a request is taken, the network settles, or
\* the answer is handed over.
InterceptStep == req' # req

\* C15: the fetch listener never writes: a step of it, hit or miss, whatever the
\* network answered, leaves the registry and every store as they were; the
\* response of the network is stored nowhere, so a lookup of the same request
\* finds after the step what it found before it.
C15_InterceptNeverWrites ==
  [][InterceptStep =>
       /\ keys' = keys /\ store' = store
       /\ \A p \in Paths : match(keys', store', p) = match(keys, store, p)]_vars

C15_Witness ==
  /\ req.phase = "done"
  /\ req.netCalls = 1
  /\ req.netResp.kind = "ok"
  /\ sw[req.ctrl].name \in Range(keys)
  /\ Manifest \subseteq DOMAIN store[sw[req.ctrl].name]
  /\ match(keys, store, req.path) = Undef

\* The step in which one caches.delete of c's activate listener settles.
DeletionSettles(c) ==
  sw'[c].pending # sw[c].pending /\ sw'[c].pending \subseteq sw[c].pending

\* C16: the activate listener of a controller never deletes the store named by
\* that controller's own Cache Identity: the name is not among the deletions
\* it issues, whatever names the registry held, and no deletion of it that
\* settles, in whatever order, takes the name out of the registry.
C16_OwnStoreKept ==
  /\ [](\A c \in Workers :
         sw[c].name \notin sw[c].pending /\ sw[c].name \notin stale(sw[c].snapshot, sw[c].name))
  /\ [][\A c \in Workers :
          (DeletionSettles(c) /\ sw[c].name \in Range(keys)) =>
            /\ sw[c].name \in Range(keys')
            /\ store'[sw[c].name] = store[sw[c].name]]_vars

C16_Witness ==
  \E c \in Workers :
    /\ sw[c].promise = "fulfilled"
    /\ Cardinality(stale(sw[c].snapshot, sw[c].name)) >= 2
    /\ sw[c].name \in Range(keys)
    /\ Manifest \subseteq DOMAIN store[sw[c].name]

\* C19: in every interleaving of the lifecycle events of controllers, an active
\* controller has the store named by its Cache Identity in the registry, with
\* an entry for every url of the manifest, and an installing controller that
\* opened its store still has it in the registry.
C19_ActiveStorePresent ==
  \A c \in Workers :
    /\ sw[c].state = "activated" =>
         /\ sw[c].name \in Range(keys)
         /\ Manifest \subseteq DOMAIN store[sw[c].name]
    /\ sw[c].state = "installing" => sw[c].name \in Range(keys)

\* The promise of a run of the activate listener on a registry, as the run
\* issues its deletions: fulfilled when there is nothing to delete.
reconcileOutcome(ks, own) == promiseAll("pending", stale(Range(ks), own), TRUE)

\* C20: the reconcile is idempotent. Once the reconcile of a controller has
\* completed and no install followed, a second run finds nothing to delete,
\* fulfils, and leaves the registry as it is; and on every registry, for every
\* versioned identity, a second run after a completed first one changes
\* nothing.
C20_ReconcileIdempotent ==
  /\ \A c \in Workers :
       (sw[c].promise = "fulfilled" /\ IsLatest(c)) =>
         /\ stale(Range(keys), sw[c].name) = {}
         /\ reconcile(keys, sw[c].name) = keys
         /\ reconcileOutcome(keys, sw[c].name) = "fulfilled"
  /\ \A own \in {n \in Names : IsVersioned(n)} :
       LET first == reconcile(keys, own) IN
         /\ stale(Range(first), own) = {}
         /\ reconcile(first, own) = first
         /\ reconcileOutcome(first, own) = "fulfilled"

C20_Witness ==
  \E c \in Workers :
    /\ sw[c].promise = "fulfilled" /\ IsLatest(c)
    /\ sw[c].state = "activated"
    /\ Cardinality(stale(sw[c].snapshot, sw[c].name)) >= 2
    /\ sw[c].snapshot \cap Range(keys) # sw[c].snapshot
    /\ reconcile(keys, sw[c].name) = keys

\* What the page shows of the reporter.
Shown(u) == <<u.display, u.width, u.innerText, u.color>>

\* The step in which the loader calls the given hook.
Calls(hook) == ui'.calls = Append(ui.calls, hook)

\* n is num / den rounded to the nearest integer, a half going up (den > 0).
IsNearest(n, num, den) == 2 * den * n <= 2 * num + den /\ 2 * num + den < 2 * den * (n + 1)

\* C17: onProgress({current, total}) with a positive total sets the progress
\* display to round(current / total * 100) percent (50 of 200 gives 25) and
\* changes nothing else on the page; with a total that is not greater than 0 it
\* changes nothing on the page at all. A page without the bar element has no
\* progress display to set.
C17_ProgressPercent ==
  [][Calls("onProgress") =>
       LET current == ui'.last.current
           total == ui'.last.total IN
       /\ (total > 0 /\ ui.bar) =>
            \E n \in 0..(100 * current) :
              /\ IsNearest(n, 100 * current, total)
              /\ ui'.width = ToString(n) \o "%"
              /\ ui.text => ui'.innerText = "Loading... " \o ToString(n) \o "%"
              /\ ~ui.text => ui'.innerText = ui.innerText
              /\ ui'.display = ui.display /\ ui'.color = ui.color
       /\ (total > 0 /\ ui.bar /\ current = 50 /\ total = 200) => ui'.width = "25%"
       /\ ~(total > 0) => Shown(ui') = Shown(ui)]_vars

C17_Witness ==
  /\ ui.calls # <<>> /\ ui.calls[Len(ui.calls)] = "onProgress"
  /\ ui.last.current = 50 /\ ui.last.total = 200
  /\ ui.width = "25%"
  /\ ui.innerText = "Loading... 25%"

\* The loader called onStart and, later and last, onFailure.
FailedAfterStart ==
  /\ Len(ui.calls) >= 2
  /\ ui.calls[Len(ui.calls)] = "onFailure"
  /\ \E i \in 1..(Len(ui.calls) - 1) : ui.calls[i] = "onStart"

\* C18: after onStart() and then onFailure(error) the progress container is
\* hidden and the status text carries the error message, in red; and a call of
\* onSuccess() leaves what the page shows (visibility, status text, colour) as
\* it was.
C18_FailureSticks ==
  /\ [](FailedAfterStart =>
          /\ ui.container => ui.display = "none"
          /\ ui.text => /\ ui.innerText = "Failed to load: " \o ui.last.error
                        /\ ui.last.error \in Errors
                        /\ ui.color = "red")
  /\ [][Calls("onSuccess") => Shown(ui') = Shown(ui)]_vars

C18_Witness ==
  /\ ui.calls = <<"onStart", "onFailure", "onSuccess">>
  /\ ui.display = "none"
  /\ ui.innerText = "Failed to load: timeout"
  /\ ui.color = "red"

====
